---- MODULE Spec2Model ----
(***************************************************************************)
(* A model of PokerStruct-Edited.cpp: the Deck (construction, shuffle,     *)
(* DrawCard, IsEmpty), the Hand (SortHand, the eight Is* predicates,       *)
(* EvaluateHand) and the comparison of two scores made by main().          *)
(*                                                                         *)
(* A Card is a record [Rank, Suit] of the integer values of the CardRank   *)
(* and CardSuit enumerators.  A std::vector<Card> is a sequence; the C++   *)
(* index k is the TLA+ index k + 1.  The scores are doubles in the code;   *)
(* every value the code computes is an integer below 2^53, so the double   *)
(* arithmetic is exact and is modelled by integer arithmetic.              *)
(***************************************************************************)
EXTENDS Integers, Sequences, FiniteSets, TLC

VARIABLES deck, drawn, hand, hand1, score1, score2, outcome1, outcome2, winner, pc

vars == <<deck, drawn, hand, hand1, score1, score2, outcome1, outcome2, winner, pc>>

-----------------------------------------------------------------------------
(* Program constants *)

InvalidRank == 0
Two == 2
Ace == 14
InvalidSuit == 0
Hearts == 1
Clubs == 4
DeckSize == 52
DeckFirstRank == 1
DeckLastRank == 13
HandSize == 5
Base == 14

(* Bounds of the model *)

\* the hands of SpecTwo and SpecPerm take their ranks in the top NumRanks ranks
NumRanks == 6
\* the hands of SpecOne take their cards in the top NumRanksOne ranks, all suits
NumRanksOne == 7
\* the hands of SpecSize have at most MaxLen cards
MaxLen == 6
\* the shuffles of SpecDeck rotate the constructed deck by 0..MaxShift places
MaxShift == 12
\* DrawCard is called at most MaxExtraDraws times on an empty deck
MaxExtraDraws == 2

Card(rank, suit) == [Rank |-> rank, Suit |-> suit]

InvalidCard == Card(InvalidRank, InvalidSuit)

Suits == Hearts..Clubs

-----------------------------------------------------------------------------
(* Deck *)

\* Deck::Deck, the loops: deck[i] = Card((CardRank)rank, (CardSuit)suit),
\* suit = 1..4 outside, rank = 1..13 inside, i counting up from 0.
DeckCards ==
    LET perSuit == DeckLastRank - DeckFirstRank + 1
    IN  [i \in 1..DeckSize |->
            Card(DeckFirstRank + ((i - 1) % perSuit), Hearts + ((i - 1) \div perSuit))]

Rotate(d, k) == [i \in 1..Len(d) |-> d[((i - 1 + k) % Len(d)) + 1]]

Reverse(d) == [i \in 1..Len(d) |-> d[Len(d) + 1 - i]]

\* Deck::Shuffle: std::random_shuffle leaves some permutation of the deck; the
\* model draws it from the rotations of the deck and their reversals.
Shuffle(d) == {Rotate(d, k) : k \in 0..MaxShift} \cup {Reverse(Rotate(d, k)) : k \in 0..MaxShift}

\* Deck::IsEmpty
IsEmpty(d) == Len(d) = 0

-----------------------------------------------------------------------------
(* Hand::SortHand *)

RECURSIVE InnerLoopUnstable(_, _, _)
InnerLoopUnstable(c, j, key) ==
    IF j >= 0 /\ c[j + 1].Rank >= key.Rank
    THEN InnerLoopUnstable([c EXCEPT ![j + 2] = c[j + 1]], j - 1, key)
    ELSE [c EXCEPT ![j + 2] = key]

\* the while loop of SortHand and the store of key behind it
RECURSIVE InnerLoop(_, _, _)
InnerLoop(c, j, key) ==
    IF j >= 0 /\ c[j + 1].Rank > key.Rank
    THEN InnerLoop([c EXCEPT ![j + 2] = c[j + 1]], j - 1, key)
    ELSE [c EXCEPT ![j + 2] = key]

\* the for loop of SortHand, from index i on
RECURSIVE OuterLoop(_, _)
OuterLoop(c, i) ==
    IF i < Len(c)
    THEN OuterLoop(InnerLoop(c, i - 1, c[i + 1]), i + 1)
    ELSE c

SortHandFromSecond(c) == OuterLoop(c, 2)

SortHand(c) == OuterLoop(c, 1)

-----------------------------------------------------------------------------
(* The predicates of Hand, on the Cards vector c *)

IsPair(c) ==
    LET pairCount == Cardinality({i \in 0..3 : c[i + 1].Rank = c[i + 2].Rank})
    IN  pairCount = 1

IsSet(c) ==
    LET count == Cardinality({i \in 0..2 : c[i + 1].Rank = c[i + 2].Rank
                                          /\ c[i + 2].Rank = c[i + 3].Rank})
    IN  count = 1

\* the loop of IsTwoPair from index i on, count pairs found so far
RECURSIVE TwoPairCount(_, _, _)
TwoPairCount(c, i, count) ==
    IF i < 4
    THEN IF c[i + 1].Rank = c[i + 2].Rank
         THEN TwoPairCount(c, i + 2, count + 1)
         ELSE TwoPairCount(c, i + 1, count)
    ELSE count

IsTwoPair(c) == TwoPairCount(c, 0, 0) = 2

IsStraight(c) == \A i \in 0..3 : c[i + 1].Rank + 1 = c[i + 2].Rank

IsFlush(c) == \A i \in 0..3 : c[i + 1].Suit = c[i + 2].Suit

IsFullHouse(c) == IsSet(c) /\ IsTwoPair(c)

IsQuadFirstOnly(c) == c[1].Rank = c[4].Rank

IsQuad(c) == (c[1].Rank = c[4].Rank) \/ (c[2].Rank = c[5].Rank)

IsStraightFlush(c) == IsStraight(c) /\ IsFlush(c)

-----------------------------------------------------------------------------
(* Hand::EvaluateHand *)

\* pow(14, n)
Pow14(n) == Base ^ n

\* the value of a HandRank enumerator
HandRank(name) ==
    CASE name = "StraightFlush" -> 9
      [] name = "Quad" -> 8
      [] name = "FullHouse" -> 7
      [] name = "Flush" -> 6
      [] name = "Straight" -> 5
      [] name = "Set" -> 4
      [] name = "TwoPair" -> 3
      [] name = "Pair" -> 2
      [] name = "HighCard" -> 1

\* the branch of the if / else if chain of EvaluateHand that is taken
Branch(c) ==
    IF IsStraightFlush(c) THEN "StraightFlush"
    ELSE IF IsQuad(c) THEN "Quad"
    ELSE IF IsFullHouse(c) THEN "FullHouse"
    ELSE IF IsFlush(c) THEN "Flush"
    ELSE IF IsStraight(c) THEN "Straight"
    ELSE IF IsSet(c) THEN "Set"
    ELSE IF IsTwoPair(c) THEN "TwoPair"
    ELSE IF IsPair(c) THEN "Pair"
    ELSE "HighCard"

\* the return expression of the StraightFlush, Flush and HighCard branches
AllCardsScore(category, c) ==
    category * Pow14(5) + c[5].Rank * Pow14(4) + c[4].Rank * Pow14(3)
        + c[3].Rank * Pow14(2) + c[2].Rank * Pow14(1) + c[1].Rank

QuadScore(c) == 8 * Pow14(5) + c[4].Rank * Pow14(4) + c[5].Rank

\* the second summand is followed by "+ -static_cast<int>(Cards[4].Rank)"
FullHouseScore(c) == 7 * Pow14(5) + c[3].Rank * Pow14(4) + (-c[5].Rank)

StraightScore(c) == 5 * Pow14(5) + c[5].Rank

SetScore(c) == 4 * Pow14(5) + c[3].Rank * Pow14(4) + c[5].Rank

TwoPairScore(c) ==
    IF c[1].Rank # c[2].Rank
    THEN 3 * Pow14(5) + c[5].Rank * Pow14(4) + c[3].Rank * Pow14(3) + c[2].Rank
    ELSE IF c[2].Rank # c[3].Rank
    THEN 3 * Pow14(5) + c[5].Rank * Pow14(4) + c[2].Rank * Pow14(3) + c[3].Rank
    ELSE 3 * Pow14(5) + c[4].Rank * Pow14(4) + c[2].Rank * Pow14(3) + c[5].Rank

PairScoreWrongKicker(c) ==
    IF c[1].Rank = c[2].Rank
    THEN 2 * Pow14(5) + c[1].Rank * Pow14(4) + c[5].Rank * Pow14(3)
            + c[4].Rank * Pow14(2) + c[3].Rank * Pow14(1)
    ELSE IF c[2].Rank = c[3].Rank
    THEN 2 * Pow14(5) + c[2].Rank * Pow14(4) + c[5].Rank * Pow14(3)
            + c[4].Rank * Pow14(2) + c[1].Rank * Pow14(1)
    ELSE IF c[3].Rank = c[4].Rank
    THEN 2 * Pow14(5) + c[4].Rank * Pow14(4) + c[5].Rank * Pow14(3)
            + c[3].Rank * Pow14(2) + c[1].Rank * Pow14(1)
    ELSE 2 * Pow14(5) + c[4].Rank * Pow14(4) + c[3].Rank * Pow14(3)
            + c[2].Rank * Pow14(2) + c[1].Rank * Pow14(1)

PairScore(c) ==
    IF c[1].Rank = c[2].Rank
    THEN 2 * Pow14(5) + c[1].Rank * Pow14(4) + c[5].Rank * Pow14(3)
            + c[4].Rank * Pow14(2) + c[3].Rank * Pow14(1)
    ELSE IF c[2].Rank = c[3].Rank
    THEN 2 * Pow14(5) + c[2].Rank * Pow14(4) + c[5].Rank * Pow14(3)
            + c[4].Rank * Pow14(2) + c[1].Rank * Pow14(1)
    ELSE IF c[3].Rank = c[4].Rank
    THEN 2 * Pow14(5) + c[4].Rank * Pow14(4) + c[5].Rank * Pow14(3)
            + c[2].Rank * Pow14(2) + c[1].Rank * Pow14(1)
    ELSE 2 * Pow14(5) + c[4].Rank * Pow14(4) + c[3].Rank * Pow14(3)
            + c[2].Rank * Pow14(2) + c[1].Rank * Pow14(1)

\* Hand::EvaluateHand on a Cards vector of at least five cards: the return
\* expression of the branch taken
EvaluateHand(c) ==
    LET branch == Branch(c)
    IN  CASE branch = "StraightFlush" -> AllCardsScore(9, c)
          [] branch = "Quad" -> QuadScore(c)
          [] branch = "FullHouse" -> FullHouseScore(c)
          [] branch = "Flush" -> AllCardsScore(6, c)
          [] branch = "Straight" -> StraightScore(c)
          [] branch = "Set" -> SetScore(c)
          [] branch = "TwoPair" -> TwoPairScore(c)
          [] branch = "Pair" -> PairScore(c)
          [] branch = "HighCard" -> AllCardsScore(1, c)

-----------------------------------------------------------------------------
(* The inputs of the model *)

Min(a, b) == IF a < b THEN a ELSE b

\* main(): hand.Cards = { Ace Hearts, King Diamonds, Queen Spades, Jack Clubs, Ten Hearts }
MainHand == <<Card(14, 1), Card(13, 2), Card(12, 3), Card(11, 4), Card(10, 1)>>

\* main(): hand1.Cards = { King Hearts, King Diamonds, King Spades, Ten Clubs, Ten Hearts }
MainHand1 == <<Card(13, 1), Card(13, 2), Card(13, 3), Card(10, 4), Card(10, 1)>>

TopRanks(n) == (Ace - n + 1)..Ace

\* rank sequences in descending order (the order main() writes its hands in),
\* not five of one rank
DescRanks ==
    {r \in [1..HandSize -> TopRanks(NumRanks)] :
        /\ \A i \in 1..(HandSize - 1) : r[i] >= r[i + 1]
        /\ r[1] # r[HandSize]}

MixedHand(r) == [i \in 1..HandSize |-> Card(r[i], Hearts + ((i - 1) % 4))]

FlushHand(r) == [i \in 1..HandSize |-> Card(r[i], Hearts)]

\* five distinct cards: every rank pattern in mixed suits, and the patterns of
\* five different ranks in one suit as well
HandInputs ==
    {MixedHand(r) : r \in DescRanks}
        \cup {FlushHand(r) : r \in {q \in DescRanks : \A i \in 1..(HandSize - 1) : q[i] > q[i + 1]}}

Permute(c, p) == [i \in 1..Len(c) |-> c[p[i]]]

\* the n-th card of the top NumRanksOne ranks, by rank and then by suit
NthCard(n) == Card(Ace - NumRanksOne + 1 + ((n - 1) \div 4), Hearts + ((n - 1) % 4))

SizeCards == {Card(13, 1), Card(13, 2), Card(14, 3)}

\* Cards vectors of every length up to MaxLen
SizeInputs == UNION {[1..n -> SizeCards] : n \in 0..MaxLen}

\* what a read of Cards[k] with k >= Cards.size() may deliver
OutOfBoundsCards == {InvalidCard, Card(14, 4)}

\* EvaluateHand on fewer than five cards reads past the end of the vector:
\* the call crashes, or goes on with whatever the reads delivered
UndefinedOutcomes(c) ==
    {[outcome |-> "Crashed", score |-> 0]}
        \cup {[outcome |-> "Returned", score |-> EvaluateHand(c \o fill)] :
                fill \in [1..(HandSize - Len(c)) -> OutOfBoundsCards]}

-----------------------------------------------------------------------------
(* Initial states *)

\* the specifications of the hands start with the hands dealt and no card left
\* in the deck
InitRest ==
    /\ drawn = <<>>
    /\ score1 = 0
    /\ score2 = 0
    /\ outcome1 = "None"
    /\ outcome2 = "None"
    /\ winner = "None"

\* two hands, as in main()
InitTwo ==
    /\ deck = <<>>
    /\ hand \in HandInputs
    /\ hand1 \in HandInputs
    /\ pc = "SortHand"
    /\ InitRest

\* a hand and the same cards in another order
InitPerm ==
    /\ deck = <<>>
    /\ hand \in HandInputs
    /\ \E p \in Permutations(1..HandSize) : hand1 = Permute(hand, p)
    /\ pc = "SortHand"
    /\ InitRest

\* any five distinct cards of the top NumRanksOne ranks, written in descending
\* order, against the second hand of main()
InitOne ==
    /\ deck = <<>>
    /\ \E a \in 1..(4 * NumRanksOne) : \E b \in 1..(a - 1) : \E c \in 1..(b - 1) :
          \E d \in 1..(c - 1) : \E e \in 1..(d - 1) :
             hand = <<NthCard(a), NthCard(b), NthCard(c), NthCard(d), NthCard(e)>>
    /\ hand1 = MainHand1
    /\ pc = "SortHand"
    /\ InitRest

\* a Cards vector of any length against the second hand of main()
InitSize ==
    /\ deck = <<>>
    /\ hand \in SizeInputs
    /\ hand1 = MainHand1
    /\ pc = "SortHand"
    /\ InitRest

\* a freshly constructed Deck
InitDeck ==
    /\ deck \in Shuffle(DeckCards)
    /\ hand = MainHand
    /\ hand1 = MainHand1
    /\ pc = "DrawCard"
    /\ InitRest

-----------------------------------------------------------------------------
(* Actions *)

\* Deck::DrawCard
DrawCard ==
    /\ pc = "DrawCard"
    /\ Len(drawn) < DeckSize + MaxExtraDraws
    /\ IF IsEmpty(deck)
       THEN /\ drawn' = Append(drawn, InvalidCard)
            /\ deck' = deck
       ELSE /\ drawn' = Append(drawn, deck[Len(deck)])
            /\ deck' = SubSeq(deck, 1, Len(deck) - 1)
    /\ UNCHANGED <<hand, hand1, score1, score2, outcome1, outcome2, winner, pc>>

\* main(): hand.SortHand()
SortFirst ==
    /\ pc = "SortHand"
    /\ hand' = SortHand(hand)
    /\ pc' = "SortHand1"
    /\ UNCHANGED <<deck, drawn, hand1, score1, score2, outcome1, outcome2, winner>>

\* main(): hand1.SortHand()
SortSecond ==
    /\ pc = "SortHand1"
    /\ hand1' = SortHand(hand1)
    /\ pc' = "EvaluateHand"
    /\ UNCHANGED <<deck, drawn, hand, score1, score2, outcome1, outcome2, winner>>

\* main(): score1 = hand.EvaluateHand()
EvaluateFirst ==
    /\ pc = "EvaluateHand"
    /\ \E res \in (IF Len(hand) >= HandSize
                   THEN {[outcome |-> "Returned", score |-> EvaluateHand(hand)]}
                   ELSE UndefinedOutcomes(hand)) :
          /\ outcome1' = res.outcome
          /\ score1' = res.score
          /\ pc' = IF res.outcome = "Crashed" THEN "Crashed" ELSE "EvaluateHand1"
    /\ UNCHANGED <<deck, drawn, hand, hand1, score2, outcome2, winner>>

\* main(): score2 = hand1.EvaluateHand()
EvaluateSecond ==
    /\ pc = "EvaluateHand1"
    /\ \E res \in (IF Len(hand1) >= HandSize
                   THEN {[outcome |-> "Returned", score |-> EvaluateHand(hand1)]}
                   ELSE UndefinedOutcomes(hand1)) :
          /\ outcome2' = res.outcome
          /\ score2' = res.score
          /\ pc' = IF res.outcome = "Crashed" THEN "Crashed" ELSE "Compare"
    /\ UNCHANGED <<deck, drawn, hand, hand1, score1, outcome1, winner>>

\* main(): the comparison of score1 and score2
Compare ==
    /\ pc = "Compare"
    /\ winner' = IF score1 < score2 THEN "Player 2 win"
                 ELSE IF score1 > score2 THEN "Player 1 win"
                 ELSE "Tie"
    /\ pc' = "Done"
    /\ UNCHANGED <<deck, drawn, hand, hand1, score1, score2, outcome1, outcome2>>

NextHands == SortFirst \/ SortSecond \/ EvaluateFirst \/ EvaluateSecond \/ Compare

NextDeck == DrawCard

SpecTwo == InitTwo /\ [][NextHands]_vars

SpecPerm == InitPerm /\ [][NextHands]_vars

SpecOne == InitOne /\ [][NextHands]_vars

SpecSize == InitSize /\ [][NextHands]_vars

SpecDeck == InitDeck /\ [][NextDeck]_vars

-----------------------------------------------------------------------------
(* Vocabulary of the properties *)

RanksOf(c) == {c[i].Rank : i \in 1..HandSize}

Count(c, r) == Cardinality({i \in 1..HandSize : c[i].Rank = r})

\* the ranks that n cards of the hand have
RanksWithCount(c, n) == {r \in RanksOf(c) : Count(c, r) = n}

\* how many ranks occur n times
Groups(c, n) == Cardinality(RanksWithCount(c, n))

MaxOf(S) == CHOOSE x \in S : \A y \in S : y <= x

MinOf(S) == CHOOSE x \in S : \A y \in S : x <= y

\* the elements of a set of numbers in descending order
RECURSIVE Descending(_)
Descending(S) == IF S = {} THEN <<>> ELSE <<MaxOf(S)>> \o Descending(S \ {MaxOf(S)})

\* a is greater than b in the lexicographic order (a and b of one length)
LexGreater(a, b) ==
    \E k \in 1..Len(a) : a[k] > b[k] /\ \A j \in 1..(k - 1) : a[j] = b[j]

DistinctCards(c) == \A i, j \in 1..Len(c) : i # j => c[i] # c[j]

\* the category poker gives a hand of five distinct cards, from its rank
\* counts: {4,1} Quad, {3,2} FullHouse, {3,1,1} Set, {2,2,1} TwoPair,
\* {2,1,1,1} Pair, and for {1,1,1,1,1} by consecutive ranks and equal suits
StandardCategory(c) ==
    LET cnt == [i \in 1..HandSize |-> Count(c, c[i].Rank)]
        cardsIn(n) == Cardinality({i \in 1..HandSize : cnt[i] = n})
        consecutive == MaxOf(RanksOf(c)) - MinOf(RanksOf(c)) = HandSize - 1
        oneSuit == Cardinality({c[i].Suit : i \in 1..HandSize}) = 1
    IN  IF cardsIn(4) = 4 /\ cardsIn(1) = 1 THEN "Quad"
        ELSE IF cardsIn(3) = 3 /\ cardsIn(2) = 2 THEN "FullHouse"
        ELSE IF cardsIn(3) = 3 /\ cardsIn(1) = 2 THEN "Set"
        ELSE IF cardsIn(2) = 4 /\ cardsIn(1) = 1 THEN "TwoPair"
        ELSE IF cardsIn(2) = 2 /\ cardsIn(1) = 3 THEN "Pair"
        ELSE IF consecutive /\ oneSuit THEN "StraightFlush"
        ELSE IF oneSuit THEN "Flush"
        ELSE IF consecutive THEN "Straight"
        ELSE "HighCard"

QuadKey(c) == <<MaxOf(RanksWithCount(c, 4)), MaxOf(RanksWithCount(c, 1))>>

FullHouseKey(c) == <<MaxOf(RanksWithCount(c, 3)), MaxOf(RanksWithCount(c, 2))>>

TwoPairKey(c) ==
    <<MaxOf(RanksWithCount(c, 2)), MinOf(RanksWithCount(c, 2)), MaxOf(RanksWithCount(c, 1))>>

PairKey(c) == <<MaxOf(RanksWithCount(c, 2))>> \o Descending(RanksWithCount(c, 1))

\* both hands are sorted and both scores are computed
BothEvaluated == pc \in {"Compare", "Done"}

BothIn(branch) == BothEvaluated /\ Branch(hand) = branch /\ Branch(hand1) = branch

\* out holds the cards of in, in non-decreasing rank order, cards of equal rank
\* in the order they have in in
StableSorted(in, out) ==
    /\ Len(out) = Len(in)
    /\ \E p \in Permutations(1..Len(in)) :
          /\ \A i \in 1..Len(in) : out[i] = in[p[i]]
          /\ \A i, j \in 1..Len(in) :
                i < j => /\ out[i].Rank <= out[j].Rank
                         /\ (out[i].Rank = out[j].Rank => p[i] < p[j])

-----------------------------------------------------------------------------
(* Properties *)

\* C1: of two sorted hands that take different branches of EvaluateHand, the
\* hand of the stronger category has the strictly greater score.
CategoryOrder ==
    BothEvaluated =>
        (HandRank(Branch(hand)) > HandRank(Branch(hand1)) => score1 > score2)

\* C2: two TwoPair hands are ordered by (higher pair, lower pair, kicker): a
\* greater triple gives a strictly greater score, equal triples equal scores.
TwoPairOrder ==
    BothIn("TwoPair") =>
        /\ LexGreater(TwoPairKey(hand), TwoPairKey(hand1)) => score1 > score2
        /\ TwoPairKey(hand) = TwoPairKey(hand1) => score1 = score2

\* C3: two Pair hands are ordered by (pair rank, highest kicker, middle kicker,
\* lowest kicker): a greater tuple gives a strictly greater score, equal tuples
\* equal scores, whatever positions the pairs are at.
PairOrder ==
    BothIn("Pair") =>
        /\ LexGreater(PairKey(hand), PairKey(hand1)) => score1 > score2
        /\ PairKey(hand) = PairKey(hand1) => score1 = score2

\* two Pair hands of one pair rank and one top kicker, the pair at positions
\* (1,2) in one and (2,3) in the other, the second kicker deciding
PairOrderWitness ==
    /\ BothIn("Pair")
    /\ hand[2].Rank = hand[3].Rank
    /\ hand1[3].Rank = hand1[4].Rank
    /\ hand[2].Rank = hand1[3].Rank
    /\ hand[5].Rank = hand1[5].Rank
    /\ LexGreater(PairKey(hand), PairKey(hand1))
    /\ score1 > score2

\* C4: the branch EvaluateHand takes on a sorted hand of five distinct cards is
\* the standard category of the hand; three or four of a kind is never a Pair.
BranchIsStandardCategory ==
    (pc = "EvaluateHand1" /\ Len(hand) = HandSize /\ DistinctCards(hand)) =>
        /\ Branch(hand) = StandardCategory(hand)
        /\ (Groups(hand, 3) = 1 \/ Groups(hand, 4) = 1) => Branch(hand) # "Pair"

\* a three of a kind, for which IsPair is false and IsSet is true, evaluated
BranchWitness ==
    /\ pc = "Done"
    /\ Groups(hand, 3) = 1
    /\ Groups(hand, 1) = 2
    /\ Branch(hand) = "Set"
    /\ score1 = SetScore(hand)

\* C5: a hand and any permutation of it, each sorted and then evaluated, take
\* the same branch and get the same score.
PermutationInvariant ==
    BothEvaluated => (score1 = score2 /\ Branch(hand) = Branch(hand1))

\* the two orders of the cards sort to different vectors (equal ranks keep
\* their order) and still score the same
PermutationWitness ==
    /\ pc = "Done"
    /\ hand # hand1
    /\ score1 = score2
    /\ winner = "Tie"

\* C6: two FullHouse hands are ordered by (rank of the three, rank of the
\* pair): a greater pair gives a strictly greater score.
FullHouseOrder ==
    BothIn("FullHouse") =>
        (LexGreater(FullHouseKey(hand), FullHouseKey(hand1)) => score1 > score2)

\* C7: two Quad hands are ordered by (rank of the four, rank of the kicker),
\* and the kicker term of the score is the rank of the card outside the four.
QuadOrder ==
    BothIn("Quad") =>
        /\ LexGreater(QuadKey(hand), QuadKey(hand1)) => score1 > score2
        /\ QuadKey(hand) = QuadKey(hand1) => score1 = score2
        /\ score1 = 8 * Pow14(5) + QuadKey(hand)[1] * Pow14(4) + QuadKey(hand)[2]

\* C8: SortHand leaves the same cards in non-decreasing rank order, cards of
\* equal rank in their input order.
SortIsStable ==
    [][/\ pc = "SortHand" => StableSorted(hand, hand')
       /\ pc = "SortHand1" => StableSorted(hand1, hand1')]_vars

\* both hands sorted, the second from an order that had two cards of one rank
\* the other way round
SortWitness ==
    /\ pc = "EvaluateHand"
    /\ StableSorted(hand, hand)
    /\ StableSorted(hand1, hand1)
    /\ \E i \in 1..(HandSize - 1) :
          /\ hand[i].Rank = hand[i + 1].Rank
          /\ hand1[i] = hand[i + 1]
          /\ hand1[i + 1] = hand[i]

\* C9: the evaluation of a Cards vector that does not hold exactly five cards
\* ends in an InvalidHandSize error, not in a score.
InvalidSizeFailsFast ==
    (outcome1 # "None" /\ Len(hand) # HandSize) => outcome1 = "InvalidHandSize"

\* C10: the first 52 draws of a fresh Deck return the 52 cards of ranks 2..14
\* in the four suits, each once and each taken off the deck; the deck is empty
\* from the 52nd draw on, and every later draw returns the invalid card.
DeckDealsStandardCards ==
    LET n == Len(drawn)
        dealt == Min(n, DeckSize)
    IN  /\ \A i \in 1..dealt : drawn[i].Rank \in Two..Ace /\ drawn[i].Suit \in Suits
        /\ \A i, j \in 1..dealt : i # j => drawn[i] # drawn[j]
        /\ n >= DeckSize =>
              {drawn[i] : i \in 1..DeckSize} = {Card(r, s) : r \in Two..Ace, s \in Suits}
        /\ Len(deck) = DeckSize - dealt
        /\ IsEmpty(deck) <=> n >= DeckSize
        /\ \A i \in (DeckSize + 1)..n : drawn[i] = InvalidCard

====
